---- MODULE Spec2Model ----
(***************************************************************************)
(* Liberal Crime Squad, src/main.rs: the terminal menu shell.              *)
(*                                                                         *)
(* Two threads: the Event Source (producer, main.rs 51-70) polls the       *)
(* terminal and sends Input / Tick events on an mpsc channel; the Menu     *)
(* Controller (main loop, main.rs 82-158) renders the active screen,       *)
(* receives one event and dispatches it on the active screen.              *)
(*                                                                         *)
(* Spec     the whole program: terminal, producer thread, channel, main.   *)
(* SpecCtl  the main loop alone, fed every event sequence: the producer    *)
(*          is replaced by an event source that hands main any event       *)
(*          whenever main waits in rx.recv().                              *)
(***************************************************************************)
EXTENDS Integers, Sequences, FiniteSets, TLC

(***************************************************************************)
(* Bounds of the model.                                                    *)
(***************************************************************************)
\* SpecCtl: number of events the event source sends in one run
MaxEvents == 5
\* Spec: number of terminal events (key presses, resizes) in one run
MaxTermEvents == 2
\* Spec: number of steps the clock takes in one run
MaxClockSteps == 4

(***************************************************************************)
(* Constants of the program.                                               *)
(***************************************************************************)
\* let tick_rate = Duration::from_millis(200)
TickRate == 200

\* crossterm KeyCode values; ch is the character of KeyCode::Char(ch)
Key(code, ch) == [code |-> code, ch |-> ch]
Esc == Key("Esc", "")
Enter == Key("Enter", "")
Backspace == Key("Backspace", "")
Left == Key("Left", "")
Char(c) == Key("Char", c)
NoKey == Key("None", "")

\* the characters the environment types
Chars == {"q", "h", "o", "a"}
\* the keys the environment presses
Keys == {Esc, Enter, Backspace, Left} \cup {Char(c) : c \in Chars}

\* the keys the user presses when the whole program runs: the producer
\* forwards every key alike, these two tell the order of events apart and
\* reach every screen and the quit path
PressedKeys == {Char("q"), Char("o")}

\* enum Event<I> { Input(I), Tick }
Input(k) == [tag |-> "Input", key |-> k]
Tick == [tag |-> "Tick", key |-> NoKey]
Events == {Input(k) : k \in Keys} \cup {Tick}

\* crossterm events: CEvent::Key(key) and the others (CEvent::Resize, ...)
KeyEvent(k) == [kind |-> "Key", key |-> k]
ResizeEvent == [kind |-> "Resize", key |-> NoKey]

\* enum MenuItem
MenuItem == {"Opening", "Home", "SavegameName"}

\* terminal sizes the environment switches between (columns, rows)
Sizes == {<<80, 24>>, <<100, 30>>}
OtherSize(s) == CHOOSE t \in Sizes : t # s

VARIABLES
    raw_mode,          \* the terminal is in raw mode
    cursor_visible,    \* the terminal cursor is shown
    size,              \* the terminal's size
    frame,             \* what the last terminal.draw put on the terminal
    active_menu_item,  \* main: the active screen
    savefile_name,     \* main: the savegame name buffer, a sequence of chars
    main_pc,           \* main: "draw", "recv", "returned" (rx dropped), "exited"
    result,            \* main's return value: "running", "Ok", "Err"
    p_pc,              \* producer: "timeout", "poll", "read", "tick", "panicked"
    last_tick,         \* producer: Instant of the last Tick sent
    timeout,           \* producer: the timeout of the current poll
    poll_start,        \* producer: Instant at which the current poll began
    now,               \* the clock, in milliseconds
    term,              \* terminal events not yet read by the producer
    chan,              \* the mpsc channel's queue
    sent,              \* history: events sent with success, with send time
    received,          \* history: events main received, with the dispatch
    frames,            \* history: what each draw rendered, by (screen, name)
    n_term,            \* history: number of terminal events produced
    n_draw,            \* history: number of draws main has completed
    p_iter             \* history: the producer's current loop iteration: how
                       \* its poll ended, what it sent, and whether a send of
                       \* the thread has ever failed

vars == <<raw_mode, cursor_visible, size, frame, active_menu_item,
          savefile_name, main_pc, result, p_pc, last_tick, timeout,
          poll_start, now, term, chan, sent, received, frames, n_term,
          n_draw, p_iter>>

termVars == <<raw_mode, cursor_visible>>
mainVars == <<active_menu_item, savefile_name, main_pc, result, n_draw>>
prodVars == <<p_pc, last_tick, timeout, poll_start, p_iter>>

(***************************************************************************)
(* Rendering (main.rs 83-103, 162-240).                                    *)
(***************************************************************************)
\* fn render_home: a constant paragraph
render_home ==
    [title |-> "Home",
     lines |-> <<"", "Welcome", "", "to", "", "pet-CLI", "", "Hello Press 'p'">>,
     text  |-> <<>>]

\* fn render_opening: a constant paragraph
render_opening ==
    [title |-> "Opening",
     lines |-> <<"Liberal Crime Squad", "", "Press ESC now to quit.",
                 "Press any other key to pursue your Liberal Agenda!">>,
     text  |-> <<>>]

\* fn render_savegame_name: two constant lines, then the name buffer
render_savegame_name(name) ==
    [title |-> "Savegame Name",
     lines |-> <<"In what world will you pursue your Liberal Agenda?",
                 "Enter a name for the save file.">>,
     text  |-> name]

\* the match on active_menu_item inside terminal.draw
RenderWidget(item, name) ==
    CASE item = "Opening"      -> render_opening
      [] item = "Home"         -> render_home
      [] item = "SavegameName" -> render_savegame_name(name)

\* chunks[1] of the layout: margin 2, rows of 3, Min(2), 3
Chunk1(sz) ==
    [x |-> 2, y |-> 2 + 3, width |-> sz[1] - 2 * 2, height |-> sz[2] - 2 * 2 - 3 - 3]

NoFrame == [area |-> Chunk1(<<80, 24>>), widget |-> [title |-> "", lines |-> <<>>, text |-> <<>>]]

(***************************************************************************)
(* Dispatch of one event on the active screen (main.rs 105-157).           *)
(* Each arm yields the next screen, the next buffer and whether the arm    *)
(* takes the quit path (disable_raw_mode, show_cursor, break).             *)
(***************************************************************************)
Outcome(item, name, quit) == [item |-> item, name |-> name, quit |-> quit]

\* mutant: Backspace leaves the buffer as it is
Pop_Keep(name) == name

\* String::pop: removes the last char, nothing on an empty string
Pop(name) == IF name = <<>> THEN name ELSE SubSeq(name, 1, Len(name) - 1)

\* mutant: the character goes to the front of the buffer
Push_Front(name, c) == <<c>> \o name

\* String::push
Push(name, c) == Append(name, c)

\* mutant: the Opening arm takes a Tick for a key
HandleOpening_TickAdvances(ev, name) ==
    IF ev.tag = "Input" /\ ev.key = Esc THEN Outcome("Opening", name, TRUE)
    ELSE Outcome("SavegameName", name, FALSE)

\* mutant: the key that leaves Opening is typed into the buffer
HandleOpening_PushesKey(ev, name) ==
    IF ev.tag = "Tick" THEN Outcome("Opening", name, FALSE)
    ELSE IF ev.key = Esc THEN Outcome("Opening", name, TRUE)
    ELSE IF ev.key.code = "Char"
         THEN Outcome("SavegameName", Append(name, ev.key.ch), FALSE)
    ELSE Outcome("SavegameName", name, FALSE)

\* mutant: the Opening arm goes back to Home on a key
HandleOpening_ToHome(ev, name) ==
    IF ev.tag = "Tick" THEN Outcome("Opening", name, FALSE)
    ELSE IF ev.key = Esc THEN Outcome("Opening", name, TRUE)
    ELSE Outcome("Home", name, FALSE)

\* MenuItem::Opening arm
HandleOpening(ev, name) ==
    IF ev.tag = "Tick" THEN Outcome("Opening", name, FALSE)
    ELSE IF ev.key = Esc THEN Outcome("Opening", name, TRUE)
    ELSE Outcome("SavegameName", name, FALSE)

\* mutant: the Home arm quits on Esc as the other two arms do
HandleHome_EscQuits(ev, name) ==
    IF ev.tag = "Tick" THEN Outcome("Home", name, FALSE)
    ELSE IF ev.key = Esc \/ ev.key = Char("q") THEN Outcome("Home", name, TRUE)
    ELSE IF ev.key = Char("h") THEN Outcome("Home", name, FALSE)
    ELSE IF ev.key = Char("o") THEN Outcome("Opening", name, FALSE)
    ELSE Outcome("Home", name, FALSE)

\* mutant: the Home arm quits on 'h' as it does on 'q'
HandleHome_QuitOnH(ev, name) ==
    IF ev.tag = "Tick" THEN Outcome("Home", name, FALSE)
    ELSE IF ev.key = Char("q") THEN Outcome("Home", name, TRUE)
    ELSE IF ev.key = Char("h") THEN Outcome("Home", name, TRUE)
    ELSE IF ev.key = Char("o") THEN Outcome("Opening", name, FALSE)
    ELSE Outcome("Home", name, FALSE)

\* MenuItem::Home arm
HandleHome(ev, name) ==
    IF ev.tag = "Tick" THEN Outcome("Home", name, FALSE)
    ELSE IF ev.key = Char("q") THEN Outcome("Home", name, TRUE)
    ELSE IF ev.key = Char("h") THEN Outcome("Home", name, FALSE)
    ELSE IF ev.key = Char("o") THEN Outcome("Opening", name, FALSE)
    ELSE Outcome("Home", name, FALSE)

\* mutant: Enter on SavegameName shows the Opening screen again
HandleSavegameName_EnterToOpening(ev, name) ==
    IF ev.tag = "Tick" THEN Outcome("SavegameName", name, FALSE)
    ELSE IF ev.key = Esc THEN Outcome("SavegameName", name, TRUE)
    ELSE IF ev.key = Enter THEN Outcome("Opening", name, FALSE)
    ELSE IF ev.key = Backspace
         THEN Outcome("SavegameName", SubSeq(name, 1, Len(name) - 1), FALSE)
    ELSE IF ev.key.code = "Char"
         THEN Outcome("SavegameName", Append(name, ev.key.ch), FALSE)
    ELSE Outcome("SavegameName", name, FALSE)

\* mutant: the SavegameName arm has no Esc case
HandleSavegameName_NoEsc(ev, name) ==
    IF ev.tag = "Tick" THEN Outcome("SavegameName", name, FALSE)
    ELSE IF ev.key = Enter THEN Outcome("Home", name, FALSE)
    ELSE IF ev.key = Backspace THEN Outcome("SavegameName", Pop(name), FALSE)
    ELSE IF ev.key.code = "Char" THEN Outcome("SavegameName", Push(name, ev.key.ch), FALSE)
    ELSE Outcome("SavegameName", name, FALSE)

\* mutant: the SavegameName arm quits on 'q' as the Home arm does
HandleSavegameName_QuitOnQ(ev, name) ==
    IF ev.tag = "Tick" THEN Outcome("SavegameName", name, FALSE)
    ELSE IF ev.key = Esc \/ ev.key = Char("q") THEN Outcome("SavegameName", name, TRUE)
    ELSE IF ev.key = Enter THEN Outcome("Home", name, FALSE)
    ELSE IF ev.key = Backspace THEN Outcome("SavegameName", Pop(name), FALSE)
    ELSE IF ev.key.code = "Char" THEN Outcome("SavegameName", Push(name, ev.key.ch), FALSE)
    ELSE Outcome("SavegameName", name, FALSE)

\* MenuItem::SavegameName arm
HandleSavegameName(ev, name) ==
    IF ev.tag = "Tick" THEN Outcome("SavegameName", name, FALSE)
    ELSE IF ev.key = Esc THEN Outcome("SavegameName", name, TRUE)
    ELSE IF ev.key = Enter THEN Outcome("Home", name, FALSE)
    ELSE IF ev.key = Backspace THEN Outcome("SavegameName", Pop(name), FALSE)
    ELSE IF ev.key.code = "Char" THEN Outcome("SavegameName", Push(name, ev.key.ch), FALSE)
    ELSE Outcome("SavegameName", name, FALSE)

\* match active_menu_item { ... }
Dispatch(item, ev, name) ==
    CASE item = "Opening"      -> HandleOpening(ev, name)
      [] item = "Home"         -> HandleHome(ev, name)
      [] item = "SavegameName" -> HandleSavegameName(ev, name)

(***************************************************************************)
(* The channel (main.rs 49, 60, 65, 107).                                  *)
(***************************************************************************)
\* mutant: a stack instead of a queue
ChanSend_Front(q, e) == <<e>> \o q

\* tx.send(e) on a live receiver: the event joins the queue
ChanSend(q, e) == Append(q, e)
\* rx.recv(): the event received, and the queue left
ChanFirst(q) == Head(q)
ChanRest(q) == Tail(q)

\* the receiver lives until main returns
RxAlive == main_pc \in {"draw", "recv"}
\* the sender lives until the producer thread panics
TxAlive == p_pc # "panicked"

\* history record of a send: the event; for a Tick the time it was sent (0
\* for an Input); for an Input whether its key ended a poll (see Arrived)
Sent(e, woke) ==
    [event |-> e, at |-> IF e.tag = "Tick" THEN now ELSE 0, woke |-> woke]

\* mutant: main starts on the Opening screen
Init_Opening ==
    /\ raw_mode = TRUE
    /\ cursor_visible = TRUE
    /\ size = <<80, 24>>
    /\ frame = NoFrame
    /\ active_menu_item = "Opening"
    /\ savefile_name = <<>>
    /\ main_pc = "draw"
    /\ result = "running"
    /\ p_pc = "timeout"
    /\ last_tick = 0
    /\ timeout = 0
    /\ poll_start = 0
    /\ now = 0
    /\ term = <<>>
    /\ chan = <<>>
    /\ sent = <<>>
    /\ received = <<>>
    /\ frames = {}
    /\ n_term = 0
    /\ n_draw = 0
    /\ p_iter = [poll |-> "none", sends |-> <<>>, failed |-> "none"]

\* the state when main enters its loop (main.rs 47-81): raw mode on, the
\* producer spawned, the terminal cleared, Home active, the buffer empty
Init ==
    /\ raw_mode = TRUE
    /\ cursor_visible = TRUE
    /\ size = <<80, 24>>
    /\ frame = NoFrame
    /\ active_menu_item = "Home"
    /\ savefile_name = <<>>
    /\ main_pc = "draw"
    /\ result = "running"
    /\ p_pc = "timeout"
    /\ last_tick = 0
    /\ timeout = 0
    /\ poll_start = 0
    /\ now = 0
    /\ term = <<>>
    /\ chan = <<>>
    /\ sent = <<>>
    /\ received = <<>>
    /\ frames = {}
    /\ n_term = 0
    /\ n_draw = 0
    /\ p_iter = [poll |-> "none", sends |-> <<>>, failed |-> "none"]

(***************************************************************************)
(* The main loop (main.rs 82-158).                                         *)
(***************************************************************************)
\* mutant: Home is drawn once; later draws of Home leave the widget that is
\* on the terminal
Rendered_HomeOnce ==
    IF active_menu_item = "Home" /\ frame # NoFrame THEN frame.widget
    ELSE RenderWidget(active_menu_item, savefile_name)

\* the widget the closure of terminal.draw renders
Rendered == RenderWidget(active_menu_item, savefile_name)

\* terminal.draw(...) succeeds: the active screen is rendered into chunks[1];
\* the frame sets no cursor, so the terminal hides it
Draw ==
    /\ main_pc = "draw"
    /\ frame' = [area |-> Chunk1(size), widget |-> Rendered]
    /\ frames' = frames \cup {[item |-> active_menu_item, name |-> savefile_name,
                               widget |-> frame'.widget]}
    /\ cursor_visible' = FALSE
    /\ main_pc' = "recv"
    /\ n_draw' = n_draw + 1
    /\ UNCHANGED <<raw_mode, size, active_menu_item, savefile_name, result,
                   prodVars, now, term, chan, sent, received, n_term>>

\* terminal.draw(...)? fails: main returns the error
DrawFail ==
    /\ main_pc = "draw"
    /\ main_pc' = "returned"
    /\ result' = "Err"
    /\ UNCHANGED <<termVars, size, frame, active_menu_item, savefile_name,
                   prodVars, now, term, chan, sent, received, frames, n_term,
                   n_draw>>

\* history record of a receive: the event, the screen it was dispatched on,
\* the buffer before it, the screen, the buffer and main's position after,
\* and the widget that was on the terminal when it was dispatched
Received(ev) ==
    [event |-> ev, on |-> active_menu_item, before |-> savefile_name,
     to |-> active_menu_item', name |-> savefile_name',
     quit |-> (main_pc' = "returned"), shown |-> frame.widget]

\* mutant: an event that does not quit is followed by the next receive,
\* with no draw between
RecvEvent_NoRedraw ==
    /\ main_pc = "recv"
    /\ chan # <<>>
    /\ LET ev == ChanFirst(chan)
           out == Dispatch(active_menu_item, ev, savefile_name)
       IN /\ ~out.quit
          /\ active_menu_item' = out.item
          /\ savefile_name' = out.name
          /\ main_pc' = "recv"
          /\ received' = Append(received, Received(ev))
    /\ chan' = ChanRest(chan)
    /\ UNCHANGED <<termVars, size, frame, result, prodVars, now, term, sent,
                   frames, n_term,
                   n_draw>>

\* rx.recv() yields an event whose arm does not quit
RecvEvent ==
    /\ main_pc = "recv"
    /\ chan # <<>>
    /\ LET ev == ChanFirst(chan)
           out == Dispatch(active_menu_item, ev, savefile_name)
       IN /\ ~out.quit
          /\ active_menu_item' = out.item
          /\ savefile_name' = out.name
          /\ main_pc' = "draw"
          /\ received' = Append(received, Received(ev))
    /\ chan' = ChanRest(chan)
    /\ UNCHANGED <<termVars, size, frame, result, prodVars, now, term, sent,
                   frames, n_term,
                   n_draw>>

\* rx.recv() yields an event whose arm quits: disable_raw_mode()?,
\* terminal.show_cursor()?, break, Ok(()); how is how far the arm gets
RecvQuit(how) ==
    /\ main_pc = "recv"
    /\ chan # <<>>
    /\ LET ev == ChanFirst(chan)
           out == Dispatch(active_menu_item, ev, savefile_name)
       IN /\ out.quit
          /\ active_menu_item' = out.item
          /\ savefile_name' = out.name
          /\ main_pc' = "returned"
          /\ received' = Append(received, Received(ev))
    /\ chan' = ChanRest(chan)
    /\ CASE how = "break" ->
              raw_mode' = FALSE /\ cursor_visible' = TRUE /\ result' = "Ok"
         [] how = "disable_raw_mode fails" ->
              UNCHANGED <<raw_mode, cursor_visible>> /\ result' = "Err"
         [] how = "show_cursor fails" ->
              raw_mode' = FALSE /\ UNCHANGED cursor_visible /\ result' = "Err"
    /\ UNCHANGED <<size, frame, prodVars, now, term, sent, frames, n_term,
                   n_draw>>

QuitBreak == RecvQuit("break")
QuitDisableFails == RecvQuit("disable_raw_mode fails")
QuitShowCursorFails == RecvQuit("show_cursor fails")

\* mutant: the receive fails whenever the queue is empty (a try_recv)
RecvFail_WhenEmpty ==
    /\ main_pc = "recv"
    /\ chan = <<>>
    /\ main_pc' = "returned"
    /\ result' = "Err"
    /\ UNCHANGED <<termVars, size, frame, active_menu_item, savefile_name,
                   prodVars, now, term, chan, sent, received, frames, n_term,
                   n_draw>>

\* rx.recv()? fails: the queue is empty and the sender is gone
RecvFail ==
    /\ main_pc = "recv"
    /\ chan = <<>>
    /\ ~TxAlive
    /\ main_pc' = "returned"
    /\ result' = "Err"
    /\ UNCHANGED <<termVars, size, frame, active_menu_item, savefile_name,
                   prodVars, now, term, chan, sent, received, frames, n_term,
                   n_draw>>

\* main has returned (rx is dropped): the process exits, ending every thread
ProcessExit ==
    /\ main_pc = "returned"
    /\ main_pc' = "exited"
    /\ UNCHANGED <<termVars, size, frame, active_menu_item, savefile_name,
                   result, prodVars, now, term, chan, sent, received, frames,
                   n_term,
                   n_draw>>

(***************************************************************************)
(* The producer thread (main.rs 51-70).  It runs until the process exits.  *)
(***************************************************************************)
Running == main_pc # "exited"

\* last_tick.elapsed()
Elapsed == now - last_tick

\* tick_rate.checked_sub(last_tick.elapsed()).unwrap_or(0); poll begins
\* (the head of the loop: the history of the iteration starts afresh)
ComputeTimeout ==
    /\ Running
    /\ p_pc = "timeout"
    /\ timeout' = IF TickRate >= Elapsed THEN TickRate - Elapsed ELSE 0
    /\ poll_start' = now
    /\ p_pc' = "poll"
    /\ p_iter' = [p_iter EXCEPT !.poll = "none", !.sends = <<>>]
    /\ UNCHANGED <<termVars, size, frame, mainVars, last_tick, now, term, chan,
                   sent, received, frames, n_term>>

\* event::poll(timeout) returns true: a terminal event is available (what
\* poll returns is decided by the events waiting at the moment it returns)
PollReady ==
    /\ Running
    /\ p_pc = "poll"
    /\ term # <<>>
    /\ p_pc' = "read"
    /\ p_iter' = [p_iter EXCEPT !.poll = "event"]
    /\ UNCHANGED <<termVars, size, frame, mainVars, last_tick, timeout,
                   poll_start, now, term, chan, sent, received, frames, n_term>>

\* mutant: poll times out although an event is available
PollTimeout_Blind ==
    /\ Running
    /\ p_pc = "poll"
    /\ now - poll_start >= timeout
    /\ p_pc' = "tick"
    /\ p_iter' = [p_iter EXCEPT !.poll = "timeout"]
    /\ UNCHANGED <<termVars, size, frame, mainVars, last_tick, timeout,
                   poll_start, now, term, chan, sent, received, frames, n_term>>

\* event::poll(timeout) returns false: the timeout has passed with no event
PollTimeout ==
    /\ Running
    /\ p_pc = "poll"
    /\ term = <<>>
    /\ now - poll_start >= timeout
    /\ p_pc' = "tick"
    /\ p_iter' = [p_iter EXCEPT !.poll = "timeout"]
    /\ UNCHANGED <<termVars, size, frame, mainVars, last_tick, timeout,
                   poll_start, now, term, chan, sent, received, frames, n_term>>

\* event::poll(timeout) fails: expect("poll works") panics
PollFail ==
    /\ Running
    /\ p_pc = "poll"
    /\ p_pc' = "panicked"
    /\ UNCHANGED <<termVars, size, frame, mainVars, last_tick, timeout,
                   poll_start, now, term, chan, sent, received, frames, n_term,
                   p_iter>>

\* event::read() yields a key: tx.send(Event::Input(key)) succeeds
ReadKey ==
    /\ Running
    /\ p_pc = "read"
    /\ Head(term).ev.kind = "Key"
    /\ RxAlive
    /\ chan' = ChanSend(chan, Input(Head(term).ev.key))
    /\ sent' = Append(sent, Sent(Input(Head(term).ev.key), Head(term).woke))
    /\ term' = Tail(term)
    /\ p_pc' = "tick"
    /\ p_iter' = [p_iter EXCEPT !.sends = Append(@, "Input")]
    /\ UNCHANGED <<termVars, size, frame, mainVars, last_tick, timeout,
                   poll_start, now, received, frames, n_term>>

\* event::read() yields a key, the receiver is gone: expect("can send
\* events") panics
ReadKeySendFails ==
    /\ Running
    /\ p_pc = "read"
    /\ Head(term).ev.kind = "Key"
    /\ ~RxAlive
    /\ term' = Tail(term)
    /\ p_pc' = "panicked"
    /\ p_iter' = [p_iter EXCEPT !.failed = "Input"]
    /\ UNCHANGED <<termVars, size, frame, mainVars, last_tick, timeout,
                   poll_start, now, chan, sent, received, frames, n_term>>

\* event::read() yields an event that is no key: nothing is sent
ReadOther ==
    /\ Running
    /\ p_pc = "read"
    /\ Head(term).ev.kind # "Key"
    /\ term' = Tail(term)
    /\ p_pc' = "tick"
    /\ UNCHANGED <<termVars, size, frame, mainVars, last_tick, timeout,
                   poll_start, now, chan, sent, received, frames, n_term,
                   p_iter>>

\* event::read() fails: expect("can read events") panics
ReadFail ==
    /\ Running
    /\ p_pc = "read"
    /\ p_pc' = "panicked"
    /\ UNCHANGED <<termVars, size, frame, mainVars, last_tick, timeout,
                   poll_start, now, term, chan, sent, received, frames, n_term,
                   p_iter>>

\* The three actions that end an iteration of the loop also end the scope of
\* its let timeout: the model zeroes timeout and poll_start there.

\* mutant: last_tick is not reset when a Tick is sent
TickSend_NoReset ==
    /\ Running
    /\ p_pc = "tick"
    /\ Elapsed >= TickRate
    /\ RxAlive
    /\ chan' = ChanSend(chan, Tick)
    /\ sent' = Append(sent, Sent(Tick, FALSE))
    /\ last_tick' = last_tick
    /\ p_pc' = "timeout"
    /\ timeout' = 0
    /\ poll_start' = 0
    /\ p_iter' = [p_iter EXCEPT !.sends = Append(@, "Tick")]
    /\ UNCHANGED <<termVars, size, frame, mainVars, now, term, received, frames,
                   n_term>>

\* mutant: a Tick is sent at the end of every iteration
TickSend_Always ==
    /\ Running
    /\ p_pc = "tick"
    /\ RxAlive
    /\ chan' = ChanSend(chan, Tick)
    /\ sent' = Append(sent, Sent(Tick, FALSE))
    /\ last_tick' = now
    /\ p_pc' = "timeout"
    /\ timeout' = 0
    /\ poll_start' = 0
    /\ p_iter' = [p_iter EXCEPT !.sends = Append(@, "Tick")]
    /\ UNCHANGED <<termVars, size, frame, mainVars, now, term, received, frames,
                   n_term>>

\* last_tick.elapsed() >= tick_rate, tx.send(Event::Tick) succeeds
TickSend ==
    /\ Running
    /\ p_pc = "tick"
    /\ Elapsed >= TickRate
    /\ RxAlive
    /\ chan' = ChanSend(chan, Tick)
    /\ sent' = Append(sent, Sent(Tick, FALSE))
    /\ last_tick' = now
    /\ p_pc' = "timeout"
    /\ timeout' = 0
    /\ poll_start' = 0
    /\ p_iter' = [p_iter EXCEPT !.sends = Append(@, "Tick")]
    /\ UNCHANGED <<termVars, size, frame, mainVars, now, term, received, frames,
                   n_term>>

\* last_tick.elapsed() >= tick_rate, tx.send(Event::Tick) fails: the
\* if let Ok(_) is not taken and the loop goes on
TickSendFails ==
    /\ Running
    /\ p_pc = "tick"
    /\ Elapsed >= TickRate
    /\ ~RxAlive
    /\ p_pc' = "timeout"
    /\ timeout' = 0
    /\ poll_start' = 0
    /\ p_iter' = [p_iter EXCEPT !.failed = "Tick"]
    /\ UNCHANGED <<termVars, size, frame, mainVars, last_tick, now, term, chan,
                   sent, received, frames, n_term>>

\* last_tick.elapsed() < tick_rate: no Tick
TickNotDue ==
    /\ Running
    /\ p_pc = "tick"
    /\ Elapsed < TickRate
    /\ p_pc' = "timeout"
    /\ timeout' = 0
    /\ poll_start' = 0
    /\ UNCHANGED <<termVars, size, frame, mainVars, last_tick, now, term, chan,
                   sent, received, frames, n_term,
                   p_iter>>

(***************************************************************************)
(* The environment of the program: the user, the terminal, the clock.      *)
(***************************************************************************)
\* a terminal event as it waits to be read; history: whether it arrived
\* while the producer was inside event::poll, and whether it was then the
\* only event waiting
Arrived(e) ==
    [ev |-> e, inpoll |-> (p_pc = "poll"),
     woke |-> (p_pc = "poll" /\ term = <<>>)]

\* the user presses a key (while some thread can still read it)
KeyPress ==
    /\ Running
    /\ TxAlive
    /\ n_term < MaxTermEvents
    /\ \E k \in PressedKeys : term' = Append(term, Arrived(KeyEvent(k)))
    /\ n_term' = n_term + 1
    /\ UNCHANGED <<termVars, size, frame, mainVars, prodVars, now, chan, sent,
                   received, frames>>

\* the terminal window is resized
TermResize ==
    /\ Running
    /\ TxAlive
    /\ n_term < MaxTermEvents
    /\ size' = OtherSize(size)
    /\ term' = Append(term, Arrived(ResizeEvent))
    /\ n_term' = n_term + 1
    /\ UNCHANGED <<termVars, frame, mainVars, prodVars, now, chan, sent,
                   received, frames>>

\* the clock's step: half a tick interval
ClockStep == TickRate \div 2

\* time passes (only the producer reads the clock)
Advance ==
    /\ Running
    /\ TxAlive
    /\ now < MaxClockSteps * ClockStep
    /\ now' = now + ClockStep
    /\ UNCHANGED <<termVars, size, frame, mainVars, prodVars, term, chan, sent,
                   received, frames, n_term>>

Next ==
    \/ Draw
    \/ DrawFail
    \/ RecvEvent
    \/ QuitBreak
    \/ QuitDisableFails
    \/ QuitShowCursorFails
    \/ RecvFail
    \/ ProcessExit
    \/ ComputeTimeout
    \/ PollReady
    \/ PollTimeout
    \/ PollFail
    \/ ReadKey
    \/ ReadKeySendFails
    \/ ReadOther
    \/ ReadFail
    \/ TickSend
    \/ TickSendFails
    \/ TickNotDue
    \/ KeyPress
    \/ TermResize
    \/ Advance

Spec == Init /\ [][Next]_vars

(***************************************************************************)
(* SpecCtl: the main loop fed by an event source that may send anything.   *)
(***************************************************************************)
\* some event arrives on the channel while main waits in rx.recv()
Feed ==
    /\ main_pc = "recv"
    /\ chan = <<>>
    /\ Len(sent) < MaxEvents
    /\ \E e \in Events :
          /\ chan' = ChanSend(chan, e)
          /\ sent' = Append(sent, Sent(e, FALSE))
    /\ UNCHANGED <<termVars, size, frame, mainVars, prodVars, now, term,
                   received, frames, n_term>>

NextCtl ==
    \/ Draw
    \/ DrawFail
    \/ RecvEvent
    \/ QuitBreak
    \/ QuitDisableFails
    \/ QuitShowCursorFails
    \/ ProcessExit
    \/ Feed

SpecCtl == Init /\ [][NextCtl]_vars

(***************************************************************************)
(* Properties.                                                             *)
(***************************************************************************)
Last(q) == q[Len(q)]
Terminated == main_pc \in {"returned", "exited"}
IsKey(r, k) == r.event = Input(k)

\* C1 (as stated): every Escape main receives, on whichever screen, takes the
\* quit path: the main loop is left and the process terminates.
C1_EscapeQuitsEverywhere ==
    \A i \in DOMAIN received :
        IsKey(received[i], Esc) => received[i].quit

\* C1 (amended): an Escape received on Opening or on SavegameName leaves the
\* main loop and the process terminates; an Escape received on Home is
\* ignored: the screen stays Home, the buffer is unchanged, main goes on.
C1_EscapeQuitsOpeningAndSavegame ==
    \A i \in DOMAIN received :
        IsKey(received[i], Esc) =>
            IF received[i].on \in {"Opening", "SavegameName"}
            THEN received[i].quit /\ i = Len(received) /\ Terminated
            ELSE /\ ~received[i].quit
                 /\ received[i].to = "Home"
                 /\ received[i].name = received[i].before

C1_Witness ==
    /\ received # <<>>
    /\ IsKey(Last(received), Esc)
    /\ Last(received).on = "SavegameName"
    /\ main_pc = "exited"
    /\ \E i \in DOMAIN received :
          IsKey(received[i], Esc) /\ received[i].on = "Home"

\* C2: 'q' quits on Home only: received on Home it terminates the process;
\* received on SavegameName it is appended to the buffer, the screen stays
\* SavegameName and main goes on (on Opening it is a key like any other).
C2_QuitKeyOnlyOnHome ==
    \A i \in DOMAIN received :
        IsKey(received[i], Char("q")) =>
            /\ received[i].on = "Home" =>
                  received[i].quit /\ i = Len(received) /\ Terminated
            /\ received[i].on = "SavegameName" =>
                  /\ ~received[i].quit
                  /\ received[i].to = "SavegameName"
                  /\ received[i].name = Append(received[i].before, "q")
            /\ received[i].on = "Opening" => ~received[i].quit

C2_Witness ==
    /\ Terminated
    /\ \E i, j \in DOMAIN received :
          /\ IsKey(received[i], Char("q")) /\ received[i].on = "SavegameName"
          /\ IsKey(received[j], Char("q")) /\ received[j].on = "Home"

NoQuitKey ==
    \A i \in DOMAIN received :
        ~IsKey(received[i], Esc) /\ ~IsKey(received[i], Char("q"))

\* C3: after any sequence of events without Escape and without 'q' main has
\* not terminated: none of them took the quit path, main is back at the head
\* of its loop after each, and main has not returned Ok(()).
C3_NoQuitKeyNoTermination ==
    NoQuitKey =>
        /\ \A i \in DOMAIN received : ~received[i].quit
        /\ result # "Ok"
        /\ Terminated => result = "Err" /\ raw_mode

C3_Witness ==
    /\ NoQuitKey
    /\ Len(received) >= 4
    /\ \E i \in DOMAIN received : received[i].event = Tick
    /\ \E i \in DOMAIN received : received[i].event.tag = "Input"
    /\ active_menu_item = "SavegameName"
    /\ main_pc = "draw"

\* C4: 'o' received on Home, then as the next Input (Ticks may come between)
\* a key other than Escape: the screen is Opening after the first key, stays
\* Opening until the second, and is SavegameName after the second.
C4_HomeOpeningSavegame ==
    \A i, j \in DOMAIN received :
        ( /\ i < j
          /\ received[i].on = "Home"
          /\ IsKey(received[i], Char("o"))
          /\ received[j].event.tag = "Input"
          /\ received[j].event.key # Esc
          /\ \A k \in (i + 1)..(j - 1) : received[k].event = Tick )
        => /\ received[i].to = "Opening"
           /\ \A k \in (i + 1)..j : received[k].on = "Opening"
           /\ received[j].to = "SavegameName"

C4_Witness ==
    \E i \in DOMAIN received :
        /\ i + 2 \in DOMAIN received
        /\ received[i].on = "Home"
        /\ IsKey(received[i], Char("o"))
        /\ received[i + 1].event = Tick
        /\ received[i + 2].event.tag = "Input"
        /\ received[i + 2].event.key # Esc
        /\ active_menu_item = "SavegameName"

\* the buffer as specified: the characters typed on SavegameName
\* among the first n events, in order, each Backspace having removed one
\* trailing character, or nothing when there was none
RECURSIVE TypedName(_)
TypedName(n) ==
    IF n = 0 THEN <<>>
    ELSE LET prev == TypedName(n - 1)
             r == received[n]
         IN IF ~(r.on = "SavegameName" /\ r.event.tag = "Input") THEN prev
            ELSE IF r.event.key.code = "Char" THEN prev \o <<r.event.key.ch>>
            ELSE IF r.event.key = Backspace /\ prev # <<>>
                 THEN [k \in 1..(Len(prev) - 1) |-> prev[k]]
            ELSE prev

\* the buffer as main holds it after its n-th event
NameAfter(n) ==
    IF n < Len(received) THEN received[n + 1].before ELSE savefile_name

\* C5: when Enter is received on SavegameName the buffer is the characters
\* typed there, less one trailing character per Backspace (none on an empty
\* buffer); the screen becomes Home and the buffer keeps that value.
C5_TypedNameKeptOnEnter ==
    \A j \in DOMAIN received :
        (received[j].on = "SavegameName" /\ IsKey(received[j], Enter)) =>
            /\ received[j].to = "Home"
            /\ received[j].before = TypedName(j - 1)
            /\ received[j].name = TypedName(j - 1)
            /\ NameAfter(j) = TypedName(j - 1)

C5_Witness ==
    \E i, j \in DOMAIN received :
        /\ i < j
        /\ received[i].on = "SavegameName"
        /\ IsKey(received[i], Backspace)
        /\ received[i].before # <<>>
        /\ received[j].on = "SavegameName"
        /\ IsKey(received[j], Enter)
        /\ active_menu_item = "Home"

\* C6: raw mode is on when main enters its loop, and whenever main has left
\* the loop raw mode is off and the cursor is visible.
C6_TerminalRestoredOnExit ==
    /\ (main_pc = "draw" /\ received = <<>>) => raw_mode
    /\ Terminated => ~raw_mode /\ cursor_visible

EventsOf(h) == [i \in DOMAIN h |-> h[i].event]

\* C7: what main has received is a prefix of what the producer sent, in the
\* same order; while the receiver lives, what was sent and not yet received
\* is exactly the queue: nothing is lost, skipped or received twice.
C7_ChannelFifoLossless ==
    /\ Len(received) <= Len(sent)
    /\ EventsOf(received) = SubSeq(EventsOf(sent), 1, Len(received))
    /\ RxAlive => EventsOf(sent) = EventsOf(received) \o chan

C7_Witness ==
    /\ Len(received) >= 2
    /\ Len(chan) >= 1
    /\ received[1].event # received[2].event
    /\ received[2].event # chan[1]
    /\ RxAlive

SendsTick == Len(sent') = Len(sent) + 1 /\ Last(sent').event = Tick

\* C8 (as stated): no Tick is sent while a key that arrived during a poll
\* is still waiting to be read: that key's Input goes first.
C8_NoTickBeforeKeyFromPoll ==
    [][SendsTick =>
         \A i \in DOMAIN term :
             ~(term[i].ev.kind = "Key" /\ term[i].inpoll)]_vars

\* C8 (amended): no Tick is sent while a key that arrived during a poll,
\* with no other terminal event waiting, is still to be read: the producer
\* forwards one terminal event per iteration, the one that ended the poll,
\* and that key's Input is on the channel before the next Tick.
C8_NoTickBeforeKeyThatEndedPoll ==
    [][SendsTick =>
         \A i \in DOMAIN term :
             ~(term[i].ev.kind = "Key" /\ term[i].woke)]_vars

C8_Witness ==
    \E i, j \in DOMAIN received :
        /\ i < j
        /\ sent[i].woke
        /\ received[i].event.tag = "Input"
        /\ received[j].event = Tick

C10_StartsOnHomeEmpty ==
    received = <<>> => active_menu_item = "Home" /\ savefile_name = <<>>

C10_Witness ==
    /\ received = <<>>
    /\ main_pc = "recv"
    /\ chan # <<>>

\* C11: a Tick changes nothing: on each screen the step that consumes a Tick
\* leaves the screen, the buffer, the terminal mode and main's result as
\* they are, and main goes on to its next draw.
C11_TickChangesNothing ==
    [][(Len(received') = Len(received) + 1 /\ Last(received').event = Tick)
         => /\ UNCHANGED <<active_menu_item, savefile_name, raw_mode,
                           cursor_visible, result>>
            /\ main_pc' = "draw"]_vars

C11_Witness ==
    /\ \A m \in MenuItem :
          \E i \in DOMAIN received :
              received[i].event = Tick /\ received[i].on = m
    /\ main_pc = "draw"
    /\ raw_mode

\* C12: on Home only 'q' (terminate) and 'o' (go to Opening) have an
\* effect: 'h' and every other key leave the screen Home and the buffer
\* unchanged, and do not terminate.
C12_HomeKeys ==
    \A i \in DOMAIN received :
        (received[i].on = "Home" /\ received[i].event.tag = "Input") =>
            /\ received[i].name = received[i].before
            /\ received[i].quit <=> IsKey(received[i], Char("q"))
            /\ received[i].to =
                  IF IsKey(received[i], Char("o")) THEN "Opening" ELSE "Home"

C12_Witness ==
    /\ \E i \in DOMAIN received :
          /\ received[i].on = "Home"
          /\ IsKey(received[i], Char("h"))
          /\ received[i].before # <<>>
    /\ active_menu_item = "Home"
    /\ savefile_name # <<>>
    /\ main_pc = "draw"

\* the buffer main holds before its n-th event, as the step before left it
NameBefore(n) == IF n = 1 THEN <<>> ELSE received[n - 1].name

\* C13: the buffer changes only on SavegameName, by a character key (append)
\* or by Backspace (the last character goes): no event on Opening or Home
\* changes it, Enter, Esc and the other keys on SavegameName do not, and no
\* other step of the program touches it.
C13_BufferChangesOnlyBySavegameKeys ==
    /\ \A i \in DOMAIN received :
          /\ received[i].before = NameBefore(i)
          /\ received[i].name # received[i].before =>
                /\ received[i].on = "SavegameName"
                /\ received[i].event.tag = "Input"
                /\ \/ /\ received[i].event.key.code = "Char"
                      /\ received[i].name =
                            received[i].before \o <<received[i].event.key.ch>>
                   \/ /\ received[i].event.key = Backspace
                      /\ received[i].before =
                            received[i].name \o <<Last(received[i].before)>>
    /\ savefile_name = NameBefore(Len(received) + 1)

C13_Witness ==
    /\ \E i \in DOMAIN received :
          /\ received[i].on = "Opening"
          /\ received[i].event.tag = "Input"
          /\ received[i].event.key.code = "Char"
          /\ received[i].to = "SavegameName"
    /\ \E i \in DOMAIN received :
          /\ received[i].on = "SavegameName"
          /\ received[i].event.tag = "Input"
          /\ received[i].event.key \in {Enter, Left}
          /\ received[i].before # <<>>
    /\ main_pc = "draw"

\* C14: after a send of the producer has failed the producer is stopped: it
\* is not found polling, reading or checking the tick again.
C14_FailedSendStopsProducer ==
    p_iter.failed # "none" => p_pc \notin {"poll", "read", "tick"}

\* the producer has just sent a Tick, the last send of its iteration
TickJustSent == p_iter.sends # <<>> /\ Last(p_iter.sends) = "Tick"

\* the time of the Tick sent before the n-th send, 0 (the producer's start)
\* when there is none
RECURSIVE TickBefore(_)
TickBefore(n) ==
    IF n <= 1 THEN 0
    ELSE IF sent[n - 1].event = Tick THEN sent[n - 1].at
    ELSE TickBefore(n - 1)

\* C15 (as stated): a Tick is sent only in an iteration whose poll timed out
\* and that has sent no Input.
C15_TickOnlyAfterIdlePoll ==
    TickJustSent => p_iter.poll = "timeout" /\ p_iter.sends = <<"Tick">>

\* C15 (amended): a Tick tells that a tick interval has passed since the
\* last Tick (or the producer's start), not that no input came: it is sent
\* at the end of an iteration, after its poll timed out (the iteration then
\* sent no Input) or after the event its poll reported was read and, if a
\* key, sent as Input.
C15_TickAtEndOfIteration ==
    TickJustSent =>
        /\ p_pc = "timeout"
        /\ p_iter.poll \in {"timeout", "event"}
        /\ p_iter.poll = "timeout" => p_iter.sends = <<"Tick">>
        /\ p_iter.sends \in {<<"Tick">>, <<"Input", "Tick">>}
        /\ Last(sent).event = Tick
        /\ Last(sent).at >= TickBefore(Len(sent)) + TickRate

C15_Witness ==
    /\ p_iter.sends = <<"Input", "Tick">>
    /\ p_iter.poll = "event"
    /\ Len(sent) >= 2
    /\ sent[Len(sent) - 1].event.tag = "Input"

\* main has left its loop from rx.recv(): its last draw has no event after it
RecvFailed == Terminated /\ n_draw = Len(received) + 1

\* C16: rx.recv() fails only when the producer thread is gone and the queue
\* is empty; main then returns an error and the terminal is left in raw
\* mode with the cursor hidden.
C16_RecvFailsOnlyWithoutSender ==
    RecvFailed =>
        /\ p_pc = "panicked"
        /\ chan = <<>>
        /\ EventsOf(received) = EventsOf(sent)
        /\ result = "Err"
        /\ raw_mode
        /\ ~cursor_visible

C16_Witness ==
    /\ RecvFailed
    /\ main_pc = "exited"
    /\ Len(received) >= 1

\* C17: main alternates draw and receive: one draw, then one event,
\* dispatched on the screen and buffer that draw rendered; an event that
\* does not quit is followed by one draw of the state it left, before the
\* next event; no draw follows an event that quits.
C17_DrawThenReceive ==
    /\ main_pc = "draw" => n_draw = Len(received)
    /\ main_pc = "recv" =>
          /\ n_draw = Len(received) + 1
          /\ frame.widget = RenderWidget(active_menu_item, savefile_name)
    /\ (Terminated /\ received # <<>> /\ Last(received).quit) =>
          n_draw = Len(received)
    /\ \A i \in DOMAIN received :
          /\ received[i].shown = RenderWidget(received[i].on, received[i].before)
          /\ i < Len(received) =>
                /\ ~received[i].quit
                /\ received[i + 1].shown =
                      RenderWidget(received[i].to, received[i].name)

C17_Witness ==
    /\ Terminated
    /\ Len(received) >= 4
    /\ Last(received).quit
    /\ n_draw = Len(received)
    /\ \E i \in DOMAIN received : received[i].name # received[i].before
    /\ \E i \in DOMAIN received : received[i].event = Tick

\* the screen main shows before its n-th event, as the step before left it
ScreenBefore(n) == IF n = 1 THEN "Home" ELSE received[n - 1].to

\* C18: the screen changes only Home -> Opening, Opening -> SavegameName and
\* SavegameName -> Home, the last by Enter alone; no other step of the
\* program changes it.
C18_ScreenCycle ==
    /\ \A i \in DOMAIN received :
          /\ received[i].on = ScreenBefore(i)
          /\ received[i].to # received[i].on =>
                \/ received[i].on = "Home" /\ received[i].to = "Opening"
                \/ received[i].on = "Opening" /\ received[i].to = "SavegameName"
                \/ /\ received[i].on = "SavegameName"
                   /\ received[i].to = "Home"
                   /\ IsKey(received[i], Enter)
    /\ active_menu_item = ScreenBefore(Len(received) + 1)

C18_Witness ==
    /\ Len(received) >= 4
    /\ \E i \in DOMAIN received :
          /\ i + 1 \in DOMAIN received
          /\ received[i].on = "SavegameName"
          /\ received[i].to = "Home"
          /\ received[i + 1].to = "Opening"
    /\ active_menu_item = "Opening"

\* C19: Ticks are rate-limited: every Tick sent comes at least one tick
\* interval after the Tick sent before it (after the producer's start for
\* the first), and one iteration of the producer sends at most one Input
\* and then at most one Tick.
C19_TicksRateLimited ==
    /\ \A i \in DOMAIN sent :
          sent[i].event = Tick => sent[i].at >= TickBefore(i) + TickRate
    /\ p_iter.sends \in {<<>>, <<"Input">>, <<"Tick">>, <<"Input", "Tick">>}

C19_Witness ==
    /\ \E i, j \in DOMAIN sent :
          i < j /\ sent[i].event = Tick /\ sent[j].event = Tick
    /\ p_iter.sends = <<"Input", "Tick">>

====
